---- MODULE Spec2Model ----
(***************************************************************************)
(* Payment correlation and confirmation pipeline of lumedot-solana-demo:   *)
(*   - utils/price_check.py     the session encoder (memo, payable URI)    *)
(*   - utils/helius_listener.py the ledger watcher: connection manager,    *)
(*                              heartbeat, per-signature handling units    *)
(* Strings the code inspects character by character (memo, log line) are   *)
(* sequences of one-character strings.                                     *)
(***************************************************************************)
EXTENDS Integers, Sequences, FiniteSets, TLC

\* ------------------------------------------------------------------ bounds
\* handling units dispatched over one run of the watcher
MaxUnits == 2
\* tokens of a memo text fed to the decoder
MaxTokens == 3

\* ----------------------------------------------------------------- strings
SP == " "
DQ == "\""
COLON == ":"

\* str.split() separates on whitespace
IsSpace(c) == c = SP

\* s.startswith(p)
StartsWith(s, p) ==
  /\ Len(s) >= Len(p)
  /\ SubSeq(s, 1, Len(p)) = p

RECURSIVE SplitFrom(_, _, _)
\* str.split() with no argument: the maximal runs of non-whitespace of s,
\* scanning from position i with the current token cur
SplitFrom(s, i, cur) ==
  IF i > Len(s)
    THEN IF cur = <<>> THEN <<>> ELSE <<cur>>
    ELSE IF IsSpace(s[i])
           THEN IF cur = <<>>
                  THEN SplitFrom(s, i + 1, <<>>)
                  ELSE <<cur>> \o SplitFrom(s, i + 1, <<>>)
           ELSE SplitFrom(s, i + 1, Append(cur, s[i]))

Split(s) == SplitFrom(s, 1, <<>>)

\* s.split(":", 1): one part when s holds no ':', else the text before the
\* first ':' and all the text after it
SplitColon1(s) ==
  LET at == {i \in 1..Len(s) : s[i] = COLON}
  IN  IF at = {} THEN <<s>>
      ELSE LET k == CHOOSE i \in at : \A j \in at : i <= j
           IN  <<SubSeq(s, 1, k - 1), SubSeq(s, k + 1, Len(s))>>

\* re.search(r'"([^"]+)"', line): the leftmost quote that is followed by one
\* or more non-quote characters and a closing quote; <<>> when none
\* (a match is never empty, so <<>> stands for "no match")
QuotedPayload(line) ==
  LET q == {i \in 1..Len(line) : line[i] = DQ}
      opens == {i \in q : \E j \in q : /\ j > i + 1
                                       /\ \A k \in (i + 1)..(j - 1) : k \notin q}
  IN  IF opens = {} THEN <<>>
      ELSE LET i == CHOOSE x \in opens : \A y \in opens : x <= y
               j == CHOOSE x \in q : x > i /\ \A y \in q : y > i => x <= y
           IN  SubSeq(line, i + 1, j - 1)

\* ----------------------------------------------------------- configuration
\* str(self.merchant), MERCHANT
Merchant == "merchant"
Accounts == {Merchant, "payer", "other"}

\* lamports per SOL: sol_paid = lamports / 1e9
LAMPORTS_PER_SOL == 1000000000

\* lamports / 1e9 as a decimal value: whole SOL and the nano-SOL fraction
\* (only reached with lamports > 0 in the code)
LamportsToSol(lamports) ==
  [whole |-> lamports \div LAMPORTS_PER_SOL, nano |-> lamports % LAMPORTS_PER_SOL]

\* sol_x as nano-SOL, to compare two amounts
SolNanos(sol) == sol.whole * LAMPORTS_PER_SOL + sol.nano

\* TOLERANCE = float(os.getenv("TOLERANCE_PCT", "0.05")), as a fraction
TOLERANCE == [num |-> 1, den |-> 20]

\* abs(sol_paid - sol_expected) / sol_expected > tol, for sol_expected > 0
\* and a fraction tol: dev / e > num / den as dev > (num * e) / den
Deviates(sol_paid, sol_expected, tol) ==
  LET d == SolNanos(sol_paid) - SolNanos(sol_expected)
      dev == IF d < 0 THEN 0 - d ELSE d
      bound == tol.num * SolNanos(sol_expected)
  IN  IF bound >= 0 THEN dev > bound \div tol.den ELSE TRUE

\* abs(sol_paid - sol_expected) / sol_expected > TOLERANCE
\* (the caller raises ZeroDivisionError when sol_expected is 0)
OutOfTolerance(sol_paid, sol_expected) ==
  Deviates(sol_paid, sol_expected, TOLERANCE)

\* the memo program id of the raw-instruction fallback
MemoProgramId == "MemoSq4gqABAXKb96qnH8TysNcWxMyWCqXgDLGmfcHr"

\* ------------------------------------------------------------------ inputs
Sigs == {"sigA", "sigB"}

Str(t) == CASE t = "ud:3"  -> <<"u", "d", ":", "3">>
            [] t = "x:3"   -> <<"x", ":", "3">>
            [] t = "pl30"  -> <<"p", "l", "3", "0">>
            [] t = "pl365" -> <<"p", "l", "3", "6", "5">>
            [] t = "eb:42" -> <<"e", "b", ":", "4", "2">>
            [] t = "au:7"  -> <<"a", "u", ":", "7">>
            [] t = "zz"    -> <<"z", "z">>
            [] t = "ud:"   -> <<"u", "d", ":">>
            [] t = "pl"    -> <<"p", "l">>
            [] t = "eb:"   -> <<"e", "b", ":">>
            [] t = "au:"   -> <<"a", "u", ":">>
            [] t = "3"     -> <<"3">>
            [] t = "42"    -> <<"4", "2">>
            [] t = "7"     -> <<"7">>
            [] t = "a b"   -> <<"a", SP, "b">>
            [] t = "a:b"   -> <<"a", ":", "b">>
            [] t = "a%b"   -> <<"a", "%", "b">>
            [] t = ""      -> <<>>

\* tokens the memo texts are made of
Tokens == {Str("ud:3"), Str("x:3"), Str("pl30"), Str("pl365"), Str("pl"),
           Str("eb:42"), Str("au:7"), Str("zz")}

RECURSIVE TokenSeqs(_)
\* the sequences of exactly n tokens
TokenSeqs(n) ==
  IF n = 0 THEN {<<>>}
  ELSE {Append(ts, t) : ts \in TokenSeqs(n - 1), t \in Tokens}

RECURSIVE JoinSp(_)
\* " ".join(ts)
JoinSp(ts) ==
  IF ts = <<>> THEN <<>>
  ELSE IF Len(ts) = 1 THEN Head(ts)
  ELSE Head(ts) \o <<SP>> \o JoinSp(Tail(ts))

\* memo texts of up to MaxTokens tokens, with and without surrounding blanks
Memos ==
  LET joined == UNION {{JoinSp(ts) : ts \in TokenSeqs(n)} : n \in 0..MaxTokens}
  IN  joined \cup {<<SP>> \o Str("ud:3") \o <<SP, SP>> \o Str("pl30") \o <<SP>>,
                   <<SP>>, Str("ud:") \o <<SP>> \o Str("eb:")}

\* a few memo texts for the runs that vary the transaction instead
FewMemos == {Str("ud:3") \o <<SP>> \o Str("pl30"),
             Str("ud:3") \o <<SP>> \o Str("eb:42")}

\* a log line: whether it starts with "Program log: Memo", and the text
\* after that marker
MemoLine(memo) == [marker |-> TRUE, text |-> <<DQ>> \o memo \o <<DQ>>]
OtherLine == [marker |-> FALSE, text |-> <<DQ>> \o Str("zz") \o <<DQ>>]
BareMemoLine == [marker |-> TRUE, text |-> Str("zz")]

\* an instruction of a jsonParsed transaction
ParsedMemoIx(memo) ==
  [parsed |-> TRUE, program |-> "spl-memo", programId |-> MemoProgramId,
   memo |-> memo, data |-> <<>>]
RawMemoIx(data) ==
  [parsed |-> FALSE, program |-> "", programId |-> MemoProgramId,
   memo |-> <<>>, data |-> data]
TransferIx ==
  [parsed |-> TRUE, program |-> "system", programId |-> "11111111",
   memo |-> <<>>, data |-> <<>>]

\* an entry of accountKeys: a dict {"pubkey": k} or the bare string k
Key(isdict, k) == [dict |-> isdict, pubkey |-> k]

\* a getTransaction response: "result" is an object, null (transaction not
\* known) or absent (a JSON-RPC error reply); "meta" is empty or holds
\* preBalances and postBalances
Tx(ixs, keys, pre, post) ==
  [result |-> "object", meta |-> TRUE, instructions |-> ixs, accountKeys |-> keys,
   preBalances |-> pre, postBalances |-> post]
NullTx ==
  [result |-> "null", meta |-> FALSE, instructions |-> <<>>, accountKeys |-> <<>>,
   preBalances |-> <<>>, postBalances |-> <<>>]
ErrorTx ==
  [result |-> "absent", meta |-> FALSE, instructions |-> <<>>, accountKeys |-> <<>>,
   preBalances |-> <<>>, postBalances |-> <<>>]
NoMetaTx(ixs) ==
  [result |-> "object", meta |-> FALSE, instructions |-> ixs, accountKeys |-> <<>>,
   preBalances |-> <<>>, postBalances |-> <<>>]

Balances == {0, 5000, 1000000000, 1050000000}

KeyLists ==
  {<<Key(d, a), Key(d, b)>> : d \in BOOLEAN, a \in Accounts, b \in Accounts}
  \cup {<<>>, <<Key(TRUE, Merchant)>>}

\* transactions with every account list and every pair of balances
ManyTxs ==
  {Tx(<<TransferIx>>, ks, pre, post) :
     ks \in KeyLists,
     pre \in [1..2 -> Balances], post \in [1..2 -> Balances]}

\* the spec's example: the merchant (index 2) goes from 1 SOL to 1.05 SOL
CreditTx(ixs) ==
  Tx(ixs, <<Key(TRUE, "payer"), Key(TRUE, Merchant)>>,
     <<1050000000, 1000000000>>, <<1000000000, 1050000000>>)
DebitTx(ixs) ==
  Tx(ixs, <<Key(TRUE, Merchant), Key(TRUE, "payer")>>,
     <<1050000000, 0>>, <<1000000000, 5000>>)

FewTxs == {CreditTx(<<TransferIx>>), NullTx, ErrorTx, NoMetaTx(<<TransferIx>>)}

\* transactions with two memo instructions, parsed and raw, in both orders,
\* and with a raw instruction without data before a parsed one
MemoTxs ==
  LET a == Str("ud:3") \o <<SP>> \o Str("pl30")
      b == Str("ud:3") \o <<SP>> \o Str("eb:42")
  IN  {CreditTx(<<RawMemoIx(a), ParsedMemoIx(b)>>),
       CreditTx(<<ParsedMemoIx(b), RawMemoIx(a)>>),
       CreditTx(<<RawMemoIx(<<>>), ParsedMemoIx(b)>>)}

\* ------------------------------------------------- handle_signature, pure
RECURSIVE MemoFromLogsMutant(_)
MemoFromLogsMutant(logs_list) ==
  IF logs_list = <<>> THEN <<>>
  ELSE IF Head(logs_list).marker /\ QuotedPayload(Head(logs_list).text) # <<>>
    THEN QuotedPayload(Head(logs_list).text)
  ELSE MemoFromLogsMutant(Tail(logs_list))

\* step 1: the first log line starting with the memo marker decides; its
\* quoted payload is the memo, <<>> (None) when it has none
RECURSIVE MemoFromLogs(_)
MemoFromLogs(logs_list) ==
  IF logs_list = <<>> THEN <<>>
  ELSE IF Head(logs_list).marker THEN QuotedPayload(Head(logs_list).text)
  ELSE MemoFromLogs(Tail(logs_list))

\* step 2: the first instruction that is a parsed spl-memo instruction or
\* carries the memo program id; <<>> (None) when there is none
RECURSIVE MemoFromInstructions(_)
MemoFromInstructions(ixs) ==
  IF ixs = <<>> THEN <<>>
  ELSE LET ix == Head(ixs)
       IN  IF ix.parsed /\ ix.program = "spl-memo" THEN ix.memo
           ELSE IF ix.programId = MemoProgramId THEN ix.data
           ELSE MemoFromInstructions(Tail(ixs))

\* keys = [(k["pubkey"] if isinstance(k, dict) else k) for k in keys_data]
Keys(keys_data) == [i \in 1..Len(keys_data) |-> keys_data[i].pubkey]

\* keys.index(str(self.merchant)): the first position of the merchant,
\* 0 for ValueError
MerchantIndex(keys) ==
  LET at == {i \in 1..Len(keys) : keys[i] = Merchant}
  IN  IF at = {} THEN 0 ELSE CHOOSE i \in at : \A j \in at : i <= j

LamportsMutant(raw_bal, idx) == raw_bal.postBalances[idx]
\* lamports = meta["postBalances"][idx] - meta["preBalances"][idx]
Lamports(raw_bal, idx) == raw_bal.postBalances[idx] - raw_bal.preBalances[idx]

NoCreditMutant(lamports) == FALSE
\* if lamports <= 0: skip
NoCredit(lamports) == lamports <= 0

UD == <<"u", "d", ":">>
PL == <<"p", "l">>
EB == <<"e", "b", ":">>
PL30 == <<"p", "l", "3", "0">>

UnexpectedMemoMutant(parts) == Len(parts) < 2
\* if len(parts) < 2 or not parts[0].startswith("ud:"): unexpected format
UnexpectedMemo(parts) == Len(parts) < 2 \/ ~StartsWith(parts[1], UD)

NoMutation == [name |-> "none"]

ReferenceMutant(signature, user_id) == user_id
\* reference:"{signature}"
Reference(signature, user_id) == signature

PurchaseTypeMutant(plan) ==
  IF plan = <<"p", "l", "3", "6", "5">> THEN "yearly" ELSE "monthly"
\* purchase_type = "monthly" if plan == "pl30" else "yearly"
PurchaseType(plan) == IF plan = PL30 THEN "monthly" ELSE "yearly"

\* ttype = "ebook" if plan.startswith("eb:") else "audiobook"
TitleType(plan) == IF StartsWith(plan, EB) THEN "ebook" ELSE "audiobook"

SubscriptionMutation(user_id, plan, sol_paid, signature) ==
  [name |-> "recordCompletedSubscriptionPurchase", userId |-> user_id,
   subscriptionType |-> "lumedot_plus", purchaseType |-> PurchaseType(plan),
   price |-> sol_paid, currency |-> "sol", endDate |-> "2099-01-01",
   txSignature |-> signature, reference |-> Reference(signature, user_id)]

TitleMutation(user_id, book_id, plan, sol_paid, signature) ==
  [name |-> "recordCompletedTitlePurchase", userId |-> user_id,
   bookId |-> book_id, purchaseType |-> TitleType(plan),
   price |-> sol_paid, currency |-> "sol",
   txSignature |-> signature, reference |-> Reference(signature, user_id)]

\* sol_paid before the balances are known
NoSol == [whole |-> -1, nano |-> 0]

\* how a run of handle_signature ends or goes on: the log branch taken
\* (why), the exception raised (exc), sol_paid and the mutation to post
Result(why, exc, sol_paid, mutation) ==
  [why |-> why, exc |-> exc, sol_paid |-> sol_paid, mutation |-> mutation,
   sol_expected |-> NoSol, warned |-> FALSE]

SolExpectedMutant(sol_paid) == [whole |-> 0, nano |-> 50000000]
\* sol_expected = sol_paid, in both branches of step 5
SolExpected(sol_paid) == sol_paid

\* step 4: parts = memo_text.split(); user_id and plan, unless the memo has
\* an unexpected format
ParseMemo(memo_text) ==
  LET parts == Split(memo_text)
  IN  IF UnexpectedMemo(parts) THEN [status |-> "unexpected_memo"]
      ELSE IF Len(SplitColon1(parts[1])) < 2 THEN [status |-> "IndexError"]
      ELSE [status |-> "ok", user_id |-> SplitColon1(parts[1])[2], plan |-> parts[2]]

\* steps 4 and 5: parse memo_text and build the mutation; the tolerance
\* check divides by sol_expected and logs a warning (warned) beyond TOLERANCE
Decode(memo_text, sol_paid, signature) ==
  LET parsed == ParseMemo(memo_text)
      Raise(e) == Result("error", e, sol_paid, NoMutation)
      sol_expected == SolExpected(sol_paid)
      Post(m) == IF SolNanos(sol_expected) = 0 THEN Raise("ZeroDivisionError")
                 ELSE [Result("post", "none", sol_paid, m) EXCEPT
                         !.sol_expected = sol_expected,
                         !.warned = OutOfTolerance(sol_paid, sol_expected)]
  IN  IF parsed.status = "unexpected_memo"
        THEN Result("unexpected_memo", "none", sol_paid, NoMutation)
      ELSE IF parsed.status = "IndexError" THEN Raise("IndexError")
      ELSE IF StartsWith(parsed.plan, PL)
        THEN Post(SubscriptionMutation(parsed.user_id, parsed.plan, sol_paid, signature))
      ELSE IF Len(SplitColon1(parsed.plan)) < 2 THEN Raise("IndexError")
      ELSE Post(TitleMutation(parsed.user_id, SplitColon1(parsed.plan)[2],
                              parsed.plan, sol_paid, signature))

\* step 3 and on, once getTransaction has answered with raw_bal
AfterBalances(memo_text, signature, raw_bal) ==
  IF raw_bal.result = "null"
    THEN Result("error", "AttributeError", NoSol, NoMutation)
  ELSE IF ~raw_bal.meta THEN Result("no_meta", "none", NoSol, NoMutation)
  ELSE LET idx == MerchantIndex(Keys(raw_bal.accountKeys))
       IN  IF idx = 0 THEN Result("no_merchant", "none", NoSol, NoMutation)
           ELSE IF idx > Len(raw_bal.postBalances) \/ idx > Len(raw_bal.preBalances)
             THEN Result("error", "IndexError", NoSol, NoMutation)
           ELSE IF NoCredit(Lamports(raw_bal, idx))
             THEN Result("no_credit", "none", NoSol, NoMutation)
           ELSE Decode(memo_text, LamportsToSol(Lamports(raw_bal, idx)), signature)

\* step 2 once getTransaction has answered with raw_tx: the memo found
AfterTx(raw_tx) ==
  IF raw_tx.result = "null"
    THEN Result("error", "AttributeError", NoSol, NoMutation)
  ELSE IF MemoFromInstructions(raw_tx.instructions) = <<>>
    THEN Result("no_memo", "none", NoSol, NoMutation)
  ELSE Result("found", "none", NoSol, NoMutation)

\* except Exception: every exception a handling unit raises is an Exception
HandlerCatches(e) == TRUE

OffloadedMutant(call) == call # "do_post"
\* the blocking calls run by asyncio.to_thread, off the event loop
Offloaded(call) == call \in {"fetch_tx", "fetch_balances", "do_post"}

\* ------------------------------------------------- price_check, pure
Digit(d) == <<"0", "1", "2", "3", "4", "5", "6", "7", "8", "9">>[d + 1]

RECURSIVE IntStr(_)
\* str(n) of an integer n >= 0
IntStr(n) == IF n < 10 THEN <<Digit(n)>> ELSE IntStr(n \div 10) \o <<Digit(n % 10)>>

RECURSIVE StripZeros(_)
\* the digits without their trailing zeros
StripZeros(ds) ==
  IF ds # <<>> /\ ds[Len(ds)] = "0" THEN StripZeros(SubSeq(ds, 1, Len(ds) - 1))
  ELSE ds

RECURSIVE ZeroPad(_, _)
ZeroPad(ds, n) == IF Len(ds) >= n THEN ds ELSE ZeroPad(<<"0">> \o ds, n)

\* amounts are counted in micro-SOL: round(x, 6) leaves a multiple of 1e-6
MICRO == 1000000

\* amount_sol = round(usd / sol_price, 6), usd in cents and sol_price in
\* whole dollars: the nearest multiple of 1e-6, a tie to the even one
AmountSol(usd, sol_price) ==
  LET n == usd * 10000
      q == n \div sol_price
      r == n % sol_price
  IN  IF 2 * r > sol_price \/ (2 * r = sol_price /\ q % 2 = 1) THEN q + 1 ELSE q

\* str(amount_sol): the shortest decimal that denotes the float, in
\* exponent form below 1e-4
AmountStr(micro) ==
  IF micro = 0 THEN <<"0", ".", "0">>
  ELSE IF micro < 10 THEN <<Digit(micro), "e", "-", "0", "6">>
  ELSE IF micro < 100
    THEN (IF micro % 10 = 0 THEN <<Digit(micro \div 10)>>
          ELSE <<Digit(micro \div 10), ".", Digit(micro % 10)>>)
         \o <<"e", "-", "0", "5">>
  ELSE LET frac == StripZeros(ZeroPad(IntStr(micro % MICRO), 6))
       IN  IntStr(micro \div MICRO) \o <<".">>
           \o (IF frac = <<>> THEN <<"0">> ELSE frac)

\* urllib.parse.quote of one character: letters, digits and _.-~/ stay,
\* every other character becomes %XX
QuoteChar(c) ==
  CASE c = SP    -> <<"%", "2", "0">>
    [] c = COLON -> <<"%", "3", "A">>
    [] c = DQ    -> <<"%", "2", "2">>
    [] c = "%"   -> <<"%", "2", "5">>
    [] OTHER     -> <<c>>

RECURSIVE Quote(_)
Quote(str) == IF str = <<>> THEN <<>> ELSE QuoteChar(Head(str)) \o Quote(Tail(str))

\* purchase_type.lower()
Lower(t) ==
  CASE t = "Monthly" -> "monthly"
    [] t = "MONTHLY" -> "monthly"
    [] t = "Yearly"  -> "yearly"
    [] t = "EBOOK"   -> "ebook"
    [] t = "eBook"   -> "ebook"
    [] OTHER         -> t

SubTagMutant(purchase_type) ==
  IF purchase_type = "monthly" THEN PL30 ELSE <<"p", "l", "3", "6", "5">>

MemoMutant(user_id, memo_tag) == UD \o user_id \o <<COLON>> \o memo_tag
\* memo = f"ud:{user_id} {memo_tag}"
Memo(user_id, memo_tag) == UD \o user_id \o <<SP>> \o memo_tag

\* memo_tag of create_sub_session
SubTag(purchase_type) ==
  IF Lower(purchase_type) = "monthly" THEN PL30 ELSE <<"p", "l", "3", "6", "5">>

\* memo_tag of create_title_session
TitleTag(book_id, purchase_type) ==
  IF Lower(purchase_type) = "ebook" THEN EB \o book_id
  ELSE <<"a", "u", ":">> \o book_id

LumedotPlus == <<"l", "u", "m", "e", "d", "o", "t", " ", "p", "l", "u", "s">>
LumedotTitle == <<"l", "u", "m", "e", "d", "o", "t", " ", "t", "i", "t", "l", "e">>
Subscription == <<"S", "u", "b", "s", "c", "r", "i", "p", "t", "i", "o", "n">>
EBookPurchase ==
  <<"e", "B", "o", "o", "k", " ", "p", "u", "r", "c", "h", "a", "s", "e">>
AudiobookPurchase ==
  <<"A", "u", "d", "i", "o", "b", "o", "o", "k", " ", "p", "u", "r", "c", "h", "a", "s", "e">>

\* urlencode(params, quote_via=quote): the pairs key=quote(value), in the
\* order of params
UrlEncode(amount_sol, ref, label, message, memo) ==
  <<<<"amount", Quote(AmountStr(amount_sol))>>,
    <<"reference", Quote(ref)>>,
    <<"label", Quote(label)>>,
    <<"message", Quote(message)>>,
    <<"memo", Quote(memo)>>>>

\* the dict both functions return
Session(merchant, amount_sol, ref, label, message, memo) ==
  [error |-> "none",
   solanaPayUrl |-> [scheme |-> "solana", recipient |-> merchant,
                     query |-> UrlEncode(amount_sol, ref, label, message, memo)],
   recipient |-> merchant, amount |-> amount_sol, reference |-> ref,
   label |-> label, message |-> message, memo |-> memo]

NotConfiguredMutant(merchant) == FALSE
\* if not MERCHANT: raise RuntimeError("MERCHANT_WALLET not set")
NotConfigured(merchant) == merchant = ""

\* the call raised
Failed(e) == [error |-> e]

NoSession ==
  [request |-> [fn |-> "none"], calls |-> <<>>, replies |-> <<>>,
   result |-> Failed("not called")]

\* inputs of the session encoder
UserIds == {Str("3"), Str(""), Str("a:b"), Str("a b"), Str("ud:3"), Str("a%b")}
BookIds == {Str("42"), Str(""), Str("a b")}
PurchaseTypes == {"monthly", "Monthly", "yearly", "ebook", "EBOOK", "audiobook", ""}
\* prices in cents, the SOL price in dollars
UsdPrices == {999, 9900, 1}
SolPrices == {100, 7}
Refs == {<<"r", "1">>, <<"r", "2">>}

\* ------------------------------------------------------------------- state
VARIABLES
  pc,            \* where start() / _connect_and_listen() stands
  ws,            \* the websocket of the current connection: none, open, closed
  exc,           \* the exception raised in _connect_and_listen, until start()
                 \* has logged it and slept
  hb,            \* self.heartbeat_task: where heartbeat() stands
  last_pong,     \* self.last_pong: the reading of the loop clock it holds,
                 \* named by the line that took it (init, connect, ping)
  units,         \* the handle_signature tasks created so far
  posts,         \* the mutations POSTed to HOST_API, in order
  ledger,        \* what getTransaction knows of each signature
  rx,            \* the last message read from the current connection (ack,
                 \* raw): none yet, the acknowledgment, a message with a
                 \* signature (sig), one without (nosig), one that is no
                 \* JSON object (bad)
  MERCHANT,      \* price_check.MERCHANT, "" when MERCHANT_WALLET is not set
  session        \* the last call of create_sub_session or
                 \* create_title_session: its arguments, the outside calls
                 \* it made, what they answered and what it returned or raised

vars == <<pc, ws, exc, hb, last_pong, rx, units, posts, ledger, MERCHANT, session>>

ConnVars == <<pc, ws, exc, hb, last_pong, rx>>

\* heartbeat() has left its loop: by the ping timeout or by ConnectionClosed
HbDone == {"timeout", "closed", "cancelled"}

\* the blocking calls a handling unit waits in
Calls == {"fetch_tx", "fetch_balances", "do_post"}

\* a blocking call made on the event loop itself stops every coroutine
LoopBlocked ==
  \E u \in 1..Len(units) : units[u].pc \in Calls /\ ~Offloaded(units[u].pc)

StartCatchesMutant(e) == e \in {"ConnectionClosed", "OSError"}
\* start(): except Exception
StartCatches(e) == e \in {"ConnectionClosed", "OSError", "JSONDecodeError",
                          "AttributeError"}

RaisedMutant(e) == IF StartCatches(e) THEN "connect" ELSE "exited"
\* where an exception leaving _connect_and_listen takes start()
Raised(e) == IF StartCatches(e) THEN "sleep5" ELSE "exited"

\* the stream events of the whole-system runs: a notification of sigB
\* without log lines, which may come again and again, and a message
\* without a signature; and the ledger of these runs
StreamEvents ==
  {[sig |-> "sigB", logs |-> <<>>],
   [sig |-> "", logs |-> <<>>]}
Ledger0 ==
  [s \in Sigs |->
     IF s = "sigA"
       THEN CreditTx(<<TransferIx, ParsedMemoIx(Str("ud:3") \o <<SP>> \o Str("eb:42"))>>)
       ELSE CreditTx(<<RawMemoIx(Str("ud:3") \o <<SP>> \o Str("pl365"))>>)]

Init ==
  /\ pc = "connect"
  /\ ws = "none"
  /\ exc = "none"
  /\ hb = "none"
  /\ last_pong = "init"
  /\ rx = "none"
  /\ units = <<>>
  /\ posts = <<>>
  /\ ledger = Ledger0
  /\ MERCHANT = Merchant
  /\ session = NoSession

\* --------------------------------------------------- start, _connect_and_listen
ConnectMutant ==
  /\ pc = "connect" /\ ~LoopBlocked
  /\ ws' = "open"
  /\ last_pong' = "connect"
  /\ pc' = "send_sub"
  /\ rx' = "none"
  /\ UNCHANGED <<hb, exc, units, posts, ledger, MERCHANT, session>>

\* websockets.connect succeeds: last_pong is reset and the heartbeat task
\* is created, before the subscribe request is sent
Connect ==
  /\ pc = "connect" /\ ~LoopBlocked
  /\ ws' = "open"
  /\ last_pong' = "connect"
  /\ hb' = "sleep"
  /\ pc' = "send_sub"
  /\ rx' = "none"
  /\ UNCHANGED <<exc, units, posts, ledger, MERCHANT, session>>

\* websockets.connect raises: no heartbeat task, no finally block
ConnectFail ==
  /\ pc = "connect" /\ ~LoopBlocked
  /\ exc' = "OSError"
  /\ pc' = Raised("OSError")
  /\ UNCHANGED <<ws, hb, last_pong, units, posts, ledger, MERCHANT, session, rx>>

\* await ws.send(json.dumps(sub_req))
SendSubscribe ==
  /\ pc = "send_sub" /\ ~LoopBlocked
  /\ IF ws = "open"
       THEN pc' = "wait_ack" /\ exc' = exc
       ELSE pc' = "finally" /\ exc' = "ConnectionClosed"
  /\ UNCHANGED <<ws, hb, last_pong, units, posts, ledger, MERCHANT, session, rx>>

RecvAckMutant ==
  /\ pc = "wait_ack" /\ ~LoopBlocked /\ ws = "open"
  /\ pc' = "listen"
  /\ rx' = "ack"
  /\ \E data \in StreamEvents :
       IF data.sig # "" /\ Len(units) < MaxUnits
         THEN units' = Append(units, [sig |-> data.sig, logs |-> data.logs,
                pc |-> "created", memo_text |-> <<>>, why |-> "", exc |-> "none",
                sol_paid |-> NoSol, mutation |-> NoMutation,
                sol_expected |-> NoSol, warned |-> FALSE, fetched |-> FALSE])
         ELSE units' = units
  /\ UNCHANGED <<ws, exc, hb, last_pong, posts, ledger, MERCHANT, session>>

\* ack = await ws.recv(): the first message, whatever it is
RecvAck ==
  /\ pc = "wait_ack" /\ ~LoopBlocked /\ ws = "open"
  /\ pc' = "listen"
  /\ rx' = "ack"
  /\ UNCHANGED <<ws, exc, hb, last_pong, units, posts, ledger, MERCHANT, session>>

NewUnit(sig, logs_list) ==
  [sig |-> sig, logs |-> logs_list, pc |-> "created", memo_text |-> <<>>,
   why |-> "", exc |-> "none", sol_paid |-> NoSol, mutation |-> NoMutation,
   sol_expected |-> NoSol, warned |-> FALSE, fetched |-> FALSE]

\* raw = await ws.recv() of a JSON object: a unit is created when it
\* carries a signature ("" stands for none); cap bounds the units of a run
Receive(cap) ==
  /\ pc = "listen" /\ ~LoopBlocked /\ ws = "open"
  /\ \E data \in StreamEvents :
       IF data.sig # ""
         THEN /\ Len(units) < cap
              /\ units' = Append(units, NewUnit(data.sig, data.logs))
              /\ rx' = "sig"
         ELSE /\ units' = units
              /\ rx' = "nosig"
  /\ UNCHANGED <<pc, ws, exc, hb, last_pong, posts, ledger, MERCHANT, session>>

RecvMessage == Receive(MaxUnits)

\* the same step in the runs that check the retry loop, which take one
\* handling unit fewer
RetryRecvMessage == Receive(MaxUnits - 1)

\* raw is no JSON (JSONDecodeError) or no JSON object (AttributeError)
RecvUnparseable ==
  /\ pc = "listen" /\ ~LoopBlocked /\ ws = "open"
  /\ \E e \in {"JSONDecodeError", "AttributeError"} : exc' = e
  /\ pc' = "finally"
  /\ rx' = "bad"
  /\ UNCHANGED <<ws, hb, last_pong, units, posts, ledger, MERCHANT, session>>

\* ws.recv() on a closed connection raises ConnectionClosed
RecvClosed ==
  /\ pc \in {"wait_ack", "listen"} /\ ~LoopBlocked /\ ws = "closed"
  /\ exc' = "ConnectionClosed"
  /\ pc' = "finally"
  /\ UNCHANGED <<ws, hb, last_pong, units, posts, ledger, MERCHANT, session, rx>>

FinallyMutant ==
  /\ pc = "finally" /\ ~LoopBlocked
  /\ ws' = "none"
  /\ pc' = Raised(exc)
  /\ rx' = "none"
  /\ UNCHANGED <<exc, hb, last_pong, units, posts, ledger, MERCHANT, session>>

\* finally: cancel the heartbeat task unless it is done; then the
\* connection is closed and the exception goes on to start(), which ends
\* the call and its local variables
Finally ==
  /\ pc = "finally" /\ ~LoopBlocked
  /\ IF hb \in HbDone
       THEN /\ ws' = "none"
            /\ pc' = Raised(exc)
            /\ rx' = "none"
            /\ UNCHANGED <<exc, hb>>
       ELSE /\ hb' = "cancel_req"
            /\ pc' = "await_hb"
            /\ UNCHANGED <<ws, exc, rx>>
  /\ UNCHANGED <<last_pong, units, posts, ledger, MERCHANT, session>>

\* await self.heartbeat_task returns with CancelledError, which is passed
AwaitHeartbeat ==
  /\ pc = "await_hb" /\ ~LoopBlocked
  /\ hb = "cancelled"
  /\ ws' = "none"
  /\ pc' = Raised(exc)
  /\ rx' = "none"
  /\ UNCHANGED <<exc, hb, last_pong, units, posts, ledger, MERCHANT, session>>

\* await asyncio.sleep(5), then the next turn of the while True loop
ReconnectDelay ==
  /\ pc = "sleep5" /\ ~LoopBlocked
  /\ pc' = "connect"
  /\ exc' = "none"
  /\ UNCHANGED <<ws, hb, last_pong, units, posts, ledger, MERCHANT, session, rx>>

\* the peer or the network closes the connection
TransportClose ==
  /\ ws = "open"
  /\ ws' = "closed"
  /\ UNCHANGED <<pc, exc, hb, last_pong, units, posts, ledger, MERCHANT, session, rx>>

\* --------------------------------------------------------------- heartbeat
\* asyncio.sleep(HEARTBEAT_INTERVAL) is over: the ping is sent
HbWake ==
  /\ hb = "sleep" /\ ~LoopBlocked
  /\ hb' = IF ws = "open" THEN "ping_wait" ELSE "closed"
  /\ UNCHANGED <<pc, ws, exc, last_pong, units, posts, ledger, MERCHANT, session, rx>>

\* the pong arrives within PING_TIMEOUT: last_pong becomes the time read
\* before the ping was sent
HbPong ==
  /\ hb = "ping_wait" /\ ~LoopBlocked /\ ws = "open"
  /\ last_pong' = "ping"
  /\ hb' = "sleep"
  /\ UNCHANGED <<pc, ws, exc, units, posts, ledger, MERCHANT, session, rx>>

\* asyncio.TimeoutError: log and break
HbTimeout ==
  /\ hb = "ping_wait" /\ ~LoopBlocked
  /\ hb' = "timeout"
  /\ UNCHANGED <<pc, ws, exc, last_pong, units, posts, ledger, MERCHANT, session, rx>>

\* ConnectionClosed while waiting for the pong: log and break
HbClosed ==
  /\ hb = "ping_wait" /\ ~LoopBlocked /\ ws = "closed"
  /\ hb' = "closed"
  /\ UNCHANGED <<pc, ws, exc, last_pong, units, posts, ledger, MERCHANT, session, rx>>

\* the cancelled task is resumed with CancelledError, which no except
\* clause of heartbeat() catches
HbCancelled ==
  /\ hb = "cancel_req" /\ ~LoopBlocked
  /\ hb' = "cancelled"
  /\ UNCHANGED <<pc, ws, exc, last_pong, units, posts, ledger, MERCHANT, session, rx>>

\* -------------------------------------------------------- handle_signature
MayRunMutant(u) ==
  /\ ws = "open"
  /\ \A v \in 1..Len(units) :
        (v # u /\ units[v].pc \in Calls) => Offloaded(units[v].pc)

\* the other coroutines cannot run while a unit blocks the event loop
MayRun(u) ==
  \A v \in 1..Len(units) :
     (v # u /\ units[v].pc \in Calls) => Offloaded(units[v].pc)

EndMutant(u, r) ==
  units' = [v \in 1..Len(units) |->
              IF v = u
                THEN [units[v] EXCEPT !.why = r.why, !.exc = r.exc,
                                      !.sol_paid = r.sol_paid, !.pc = "done"]
                ELSE [units[v] EXCEPT !.memo_text = units[u].memo_text]]

\* the unit comes to its end: a return, or an exception that the
\* except clause logs
End(u, r) ==
  units' = [units EXCEPT ![u].why = r.why,
                         ![u].exc = r.exc,
                         ![u].sol_paid = r.sol_paid,
                         ![u].pc = IF r.exc = "none" \/ HandlerCatches(r.exc)
                                     THEN "done" ELSE "crashed"]

\* steps 3 to 6 on the answer raw_bal: the unit ends, or posts its mutation
Forward(u, r) ==
  IF r.why = "post"
    THEN /\ units' = [units EXCEPT ![u].pc = "do_post",
                                   ![u].sol_paid = r.sol_paid,
                                   ![u].sol_expected = r.sol_expected,
                                   ![u].warned = r.warned,
                                   ![u].mutation = r.mutation]
         /\ posts' = Append(posts, r.mutation)
    ELSE /\ End(u, r)
         /\ posts' = posts

\* the task starts: the memo is looked for in the log lines, then the
\* first blocking call is made (fetched: that call is fetch_tx)
UnitStart ==
  \E u \in 1..Len(units) :
    /\ units[u].pc = "created" /\ MayRun(u)
    /\ LET memo_text == MemoFromLogs(units[u].logs)
       IN  units' = [units EXCEPT ![u].memo_text = memo_text,
                                  ![u].fetched = (memo_text = <<>>),
                                  ![u].pc = IF memo_text = <<>>
                                              THEN "fetch_tx" ELSE "fetch_balances"]
    /\ UNCHANGED <<ConnVars, posts, ledger, MERCHANT, session>>

\* what getTransaction may answer for a signature
RpcReplies(sig) == {ledger[sig], NullTx}

\* fetch_tx returns
TxReply ==
  \E u \in 1..Len(units) :
    /\ units[u].pc = "fetch_tx" /\ MayRun(u)
    /\ \E raw_tx \in RpcReplies(units[u].sig) :
         IF AfterTx(raw_tx).why = "found"
           THEN units' = [units EXCEPT
                            ![u].memo_text = MemoFromInstructions(raw_tx.instructions),
                            ![u].pc = "fetch_balances"]
           ELSE End(u, AfterTx(raw_tx))
    /\ UNCHANGED <<ConnVars, posts, ledger, MERCHANT, session>>

\* fetch_balances returns
BalReply ==
  \E u \in 1..Len(units) :
    /\ units[u].pc = "fetch_balances" /\ MayRun(u)
    /\ \E raw_bal \in RpcReplies(units[u].sig) :
         Forward(u, AfterBalances(units[u].memo_text, units[u].sig, raw_bal))
    /\ UNCHANGED <<ConnVars, ledger, MERCHANT, session>>

\* requests.post of fetch_tx or fetch_balances raises (timeout, network)
RpcFail ==
  \E u \in 1..Len(units) :
    /\ units[u].pc \in {"fetch_tx", "fetch_balances"} /\ MayRun(u)
    /\ End(u, Result("error", "RequestException", NoSol, NoMutation))
    /\ UNCHANGED <<ConnVars, posts, ledger, MERCHANT, session>>

PostReplyMutant ==
  \E u \in 1..Len(units) :
    /\ units[u].pc = "do_post" /\ MayRun(u)
    /\ \E status \in {200, 500} :
         IF status = 200
           THEN /\ End(u, Result("forwarded", "none", units[u].sol_paid,
                                 units[u].mutation))
                /\ posts' = posts
           ELSE /\ Len(posts) < 3
                /\ posts' = Append(posts, units[u].mutation)
                /\ units' = units
    /\ UNCHANGED <<ConnVars, ledger, MERCHANT, session>>

\* do_post returns: status 200, or another status (logged as an error)
PostReply ==
  \E u \in 1..Len(units) :
    /\ units[u].pc = "do_post" /\ MayRun(u)
    /\ \E status \in {200, 500} :
         End(u, Result(IF status = 200 THEN "forwarded" ELSE "mutation_failed",
                       "none", units[u].sol_paid, units[u].mutation))
    /\ UNCHANGED <<ConnVars, posts, ledger, MERCHANT, session>>

\* do_post raises (timeout, network)
PostFail ==
  \E u \in 1..Len(units) :
    /\ units[u].pc = "do_post" /\ MayRun(u)
    /\ End(u, Result("error", "RequestException", units[u].sol_paid,
                      units[u].mutation))
    /\ UNCHANGED <<ConnVars, posts, ledger, MERCHANT, session>>

\* ---------------------------------------------------------- specifications
ListenerStep ==
  \/ Connect \/ ConnectFail \/ SendSubscribe \/ RecvClosed
  \/ Finally \/ AwaitHeartbeat \/ ReconnectDelay

HeartbeatStep == HbWake \/ HbPong \/ HbTimeout \/ HbClosed \/ HbCancelled

UnitStep == UnitStart \/ TxReply \/ BalReply \/ RpcFail \/ PostReply \/ PostFail

Next ==
  \/ Connect \/ ConnectFail \/ SendSubscribe \/ RecvAck \/ RecvMessage
  \/ RecvUnparseable \/ RecvClosed \/ Finally \/ AwaitHeartbeat
  \/ ReconnectDelay \/ TransportClose
  \/ HbWake \/ HbPong \/ HbTimeout \/ HbClosed \/ HbCancelled
  \/ UnitStart \/ TxReply \/ BalReply \/ RpcFail \/ PostReply \/ PostFail

Spec == Init /\ [][Next]_vars

\* the event loop runs every coroutine that is ready; connect, sleep, the
\* pong wait and the HTTP calls all end by their timeouts. ws.recv() has no
\* timeout: nothing makes a message, or the closing of the connection, come
FairSpec ==
  /\ Init /\ [][Next]_vars
  /\ WF_vars(ListenerStep)
  /\ WF_vars(HeartbeatStep)
  /\ WF_vars(UnitStep)

RetryNext ==
  \/ Connect \/ ConnectFail \/ SendSubscribe \/ RecvAck \/ RetryRecvMessage
  \/ RecvUnparseable \/ RecvClosed \/ Finally \/ AwaitHeartbeat
  \/ ReconnectDelay \/ TransportClose
  \/ HbWake \/ HbPong \/ HbTimeout \/ HbClosed \/ HbCancelled
  \/ UnitStart \/ TxReply \/ BalReply \/ RpcFail \/ PostReply \/ PostFail

\* the retry loop under the fairness of the listener and of the heartbeat
\* alone: the handling units may be as slow as they like
RetrySpec ==
  /\ Init /\ [][RetryNext]_vars
  /\ WF_vars(ListenerStep)
  /\ WF_vars(HeartbeatStep)

\* one handling unit, over every memo text and every transaction
HandlerInit ==
  /\ pc = "listen"
  /\ ws = "open"
  /\ exc = "none"
  /\ hb = "sleep"
  /\ last_pong = "connect"
  /\ rx = "sig"
  /\ posts = <<>>
  /\ MERCHANT = Merchant
  /\ session = NoSession
  /\ \E sig \in Sigs :
       \/ \E memo \in Memos, tx \in FewTxs :
            /\ units = <<NewUnit(sig, <<MemoLine(memo)>>)>>
            /\ ledger = [s \in Sigs |-> tx]
       \/ \E memo \in FewMemos, tx \in ManyTxs :
            /\ units = <<NewUnit(sig, <<OtherLine, MemoLine(memo)>>)>>
            /\ ledger = [s \in Sigs |-> tx]
       \/ \E memo \in Memos, mk \in {"parsed", "raw"} :
            /\ units = <<NewUnit(sig, <<OtherLine>>)>>
            /\ ledger = [s \in Sigs |->
                 CreditTx(<<TransferIx,
                            IF mk = "parsed" THEN ParsedMemoIx(memo)
                                             ELSE RawMemoIx(memo)>>)]
       \/ \E logs_list \in {<<>>, <<BareMemoLine, MemoLine(Str("ud:3"))>>},
             tx \in FewTxs \cup MemoTxs :
            /\ units = <<NewUnit(sig, logs_list)>>
            /\ ledger = [s \in Sigs |-> tx]

HandlerNext ==
  UnitStart \/ TxReply \/ BalReply \/ RpcFail \/ PostReply \/ PostFail

HandlerSpec == HandlerInit /\ [][HandlerNext]_vars

\* ------------------------------------------------------------ price_check
\* the encoder keeps nothing from one call to the next: a run makes one call
NotCalled == session.request.fn = "none"

\* create_sub_session(user_id, purchase_type): the pricing query, the
\* oracle and the random reference are the outside calls, in that order;
\* the first that fails ends the call with its exception
CreateSubSession ==
  \E user_id \in UserIds, purchase_type \in PurchaseTypes :
    LET request == [fn |-> "create_sub_session", user_id |-> user_id,
                    purchase_type |-> purchase_type]
        Return(calls, replies, result) ==
          session' = [request |-> request, calls |-> calls, replies |-> replies,
                      result |-> result]
    IN  /\ NotCalled
        /\ IF NotConfigured(MERCHANT)
             THEN Return(<<>>, <<>>, Failed("RuntimeError"))
             ELSE \/ Return(<<"pricing">>, <<>>, Failed("PricingError"))
                  \/ Return(<<"pricing", "oracle">>, <<>>, Failed("OracleError"))
                  \/ \E monthlyPrice \in UsdPrices, yearlyPrice \in UsdPrices,
                        sol_price \in SolPrices, ref \in Refs :
                       LET usd == IF Lower(purchase_type) = "monthly"
                                    THEN monthlyPrice ELSE yearlyPrice
                       IN  Return(<<"pricing", "oracle", "random">>,
                                  [monthlyPrice |-> monthlyPrice,
                                   yearlyPrice |-> yearlyPrice,
                                   sol_price |-> sol_price, ref |-> ref],
                                  Session(MERCHANT, AmountSol(usd, sol_price), ref,
                                          LumedotPlus, Subscription,
                                          Memo(user_id, SubTag(purchase_type))))
        /\ UNCHANGED <<ConnVars, units, posts, ledger, MERCHANT>>

\* create_title_session(user_id, book_id, purchase_type)
CreateTitleSession ==
  \E user_id \in UserIds, book_id \in BookIds, purchase_type \in PurchaseTypes :
    LET request == [fn |-> "create_title_session", user_id |-> user_id,
                    book_id |-> book_id, purchase_type |-> purchase_type]
        Return(calls, replies, result) ==
          session' = [request |-> request, calls |-> calls, replies |-> replies,
                      result |-> result]
    IN  /\ NotCalled
        /\ IF NotConfigured(MERCHANT)
             THEN Return(<<>>, <<>>, Failed("RuntimeError"))
             ELSE \/ Return(<<"pricing">>, <<>>, Failed("PricingError"))
                  \/ Return(<<"pricing", "oracle">>, <<>>, Failed("OracleError"))
                  \/ \E ebook_price \in UsdPrices, audiobook_price \in UsdPrices,
                        sol_price \in SolPrices, ref \in Refs :
                       LET ebook == Lower(purchase_type) = "ebook"
                           usd == IF ebook THEN ebook_price ELSE audiobook_price
                       IN  Return(<<"pricing", "oracle", "random">>,
                                  [ebook_price |-> ebook_price,
                                   audiobook_price |-> audiobook_price,
                                   sol_price |-> sol_price, ref |-> ref],
                                  Session(MERCHANT, AmountSol(usd, sol_price), ref,
                                          LumedotTitle,
                                          IF ebook THEN EBookPurchase
                                                   ELSE AudiobookPurchase,
                                          Memo(user_id, TitleTag(book_id, purchase_type))))
        /\ UNCHANGED <<ConnVars, units, posts, ledger, MERCHANT>>

\* the session encoder alone, with and without a configured merchant
SessionInit ==
  /\ pc = "connect"
  /\ ws = "none"
  /\ exc = "none"
  /\ hb = "none"
  /\ last_pong = "init"
  /\ rx = "none"
  /\ units = <<>>
  /\ posts = <<>>
  /\ ledger = Ledger0
  /\ MERCHANT \in {"", Merchant}
  /\ session = NoSession

SessionNext == CreateSubSession \/ CreateTitleSession

SessionSpec == SessionInit /\ [][SessionNext]_vars

\* ------------------------------------------------------------------ claims
\* start() is between two connections: tearing one down, or sleeping
Disconnected == pc \in {"finally", "await_hb", "sleep5"}

\* a handling unit is waiting in a blocking call
InFlight(u) == units[u].pc \in Calls

\* C1: whenever a heartbeat probe times out while the listener is
\* Listening, the listener eventually leaves Listening and makes a new
\* connection attempt
C1_ProbeTimeoutReconnects ==
  (pc = "listen" /\ hb = "timeout") ~> (pc = "connect")

\* C2: the connection manager never gives up: start() never leaves its
\* retry loop, and after any closure of the transport and after any
\* exception raised in connect, subscribe, ack wait or receive it comes to
\* make another connection attempt
C2_NeverGivesUp ==
  /\ [](pc # "exited")
  /\ (Disconnected \/ (ws = "closed" /\ pc \in {"send_sub", "wait_ack", "listen"}))
       ~> (pc = "connect")

\* start() has caught the exception of an unparseable stream message and
\* sleeps before it connects again
C2_Witness == pc = "sleep5" /\ exc = "JSONDecodeError" /\ hb = "cancelled"

\* C3: for any transaction signature at most one completion report is
\* submitted over the whole run of the watcher
C3_NoDuplicateCompletion ==
  \A i, j \in 1..Len(posts) :
     posts[i].txSignature = posts[j].txSignature => i = j

\* C4: while handling units are in flight, blocked in a ledger RPC or in
\* the POST, the receive loop can receive the next message and the
\* heartbeat can take its next step: neither waits for a unit
C4_ReceiveNeverStalled ==
  (\E u \in 1..Len(units) : InFlight(u)) =>
     /\ (pc = "listen" /\ ws = "open") => ENABLED RecvMessage
     /\ (pc = "listen" /\ ws = "closed") => ENABLED RecvClosed
     /\ (hb = "sleep") => ENABLED HbWake
     /\ (hb = "ping_wait") => ENABLED HbTimeout

\* the receive loop has taken a second signature and stands ready for the
\* next message while the first unit waits in its POST and the second in
\* its ledger RPC
C4_Witness ==
  /\ pc = "listen" /\ ws = "open"
  /\ Len(units) = 2
  /\ units[1].pc = "do_post"
  /\ units[2].pc = "fetch_tx"
  /\ ENABLED RecvMessage

\* the plan tags of the memo codec for the request of a session
C5_Tags(request) ==
  IF request.fn = "create_sub_session"
    THEN {<<"p", "l", "3", "0">>, <<"p", "l", "3", "6", "5">>}
    ELSE {<<"e", "b", ":">> \o request.book_id, <<"a", "u", ":">> \o request.book_id}

\* the watcher's decoder gives back the user id and the plan tag that the
\* memo of the session was built from
C5_RoundTrip ==
  LET memo == session.result.memo
      parsed == ParseMemo(memo)
  IN  /\ parsed.status = "ok"
      /\ parsed.user_id = session.request.user_id
      /\ parsed.plan \in C5_Tags(session.request)
      /\ memo = <<"u", "d", ":">> \o parsed.user_id \o <<" ">> \o parsed.plan

C5_NoSpace(str) == \A i \in 1..Len(str) : str[i] # " "

\* the ids of the request hold no whitespace
C5_Tokens(request) ==
  /\ C5_NoSpace(request.user_id)
  /\ request.fn = "create_title_session" => C5_NoSpace(request.book_id)

\* C5 as claimed: for every (userId, planTag) the watcher's decoder gives
\* back the pair from the memo "ud:<userId> <planTag>" of the session encoder
C5_Original == session.result.error = "none" => C5_RoundTrip

\* C5 as amended: the round trip holds for every userId and bookId that
\* hold no whitespace
C5_MemoRoundTrip ==
  (session.result.error = "none" /\ C5_Tokens(session.request)) => C5_RoundTrip

\* a title session of user "a:b" for book 42 whose memo decodes to
\* ("a:b", "eb:42")
C5_Witness ==
  /\ session.result.error = "none"
  /\ session.request.fn = "create_title_session"
  /\ session.request.user_id = <<"a", ":", "b">>
  /\ session.result.memo = <<"u", "d", ":", "a", ":", "b", " ", "e", "b", ":", "4", "2">>
  /\ ParseMemo(session.result.memo).user_id = <<"a", ":", "b">>
  /\ ParseMemo(session.result.memo).plan = <<"e", "b", ":", "4", "2">>

\* the claim's reading of a memo: its whitespace-separated tokens
C6_Malformed(memo) ==
  Len(Split(memo)) < 2 \/ ~StartsWith(Split(memo)[1], <<"u", "d", ":">>)

\* C6: a memo with fewer than two tokens, or whose first token does not
\* start with ud:, ends the handling unit without a completion report and
\* without an exception leaving handle_signature
C6_MalformedMemoDropped ==
  \A u \in 1..Len(units) :
     (units[u].pc # "created" /\ C6_Malformed(units[u].memo_text)) =>
        /\ units[u].pc # "do_post"
        /\ units[u].pc # "crashed"
        /\ units[u].mutation = NoMutation
        /\ posts = <<>>

\* a unit with a credited transaction and the memo "x:3 pl30" has ended on
\* the unexpected-memo branch
C6_Witness ==
  \E u \in 1..Len(units) :
     /\ units[u].pc = "done"
     /\ units[u].why = "unexpected_memo"
     /\ units[u].memo_text = Str("x:3") \o <<SP>> \o Str("pl30")
     /\ units[u].sol_paid # NoSol

\* the merchant is in the account list of tx and its balance grew
C7_Credited(tx) ==
  \E i \in 1..Len(tx.accountKeys) :
     /\ tx.accountKeys[i].pubkey = Merchant
     /\ \A j \in 1..(i - 1) : tx.accountKeys[j].pubkey # Merchant
     /\ tx.postBalances[i] - tx.preBalances[i] > 0

\* C7: a completion report is submitted only if the account list of the
\* resolved transaction holds the merchant and the merchant's balance delta
\* is strictly positive; otherwise nothing is forwarded
C7_ForwardOnlyOnCredit ==
  \A u \in 1..Len(units) :
     (units[u].mutation # NoMutation \/ posts # <<>>) =>
        /\ ledger[units[u].sig].meta
        /\ C7_Credited(ledger[units[u].sig])

\* a unit forwards a transaction whose second account is the merchant,
\* credited with 5000 lamports
C7_Witness ==
  \E u \in 1..Len(units) :
     /\ units[u].pc = "do_post"
     /\ Len(posts) = 1
     /\ Len(ledger[units[u].sig].accountKeys) = 2
     /\ ledger[units[u].sig].accountKeys[2].pubkey = Merchant
     /\ ledger[units[u].sig].accountKeys[1].pubkey # Merchant
     /\ ledger[units[u].sig].preBalances[2] = 0
     /\ ledger[units[u].sig].postBalances[2] = 5000

C9_Decoding(u) ==
  /\ units[u].sol_paid # NoSol
  /\ ~C6_Malformed(units[u].memo_text)

C9_Tag(u) == Split(units[u].memo_text)[2]
C9_User(u) == SubSeq(Split(units[u].memo_text)[1], 4, Len(Split(units[u].memo_text)[1]))
C9_HasColon(tag) == \E i \in 1..Len(tag) : tag[i] = ":"
C9_AfterColon(tag) ==
  LET k == CHOOSE i \in 1..Len(tag) :
             tag[i] = ":" /\ \A j \in 1..(i - 1) : tag[j] # ":"
  IN  SubSeq(tag, k + 1, Len(tag))

\* the completion the claim describes for a subscription tag
C9_Subscription(u) ==
  /\ units[u].mutation # NoMutation
  /\ units[u].mutation.name = "recordCompletedSubscriptionPurchase"
  /\ units[u].mutation.userId = C9_User(u)
  /\ units[u].mutation.purchaseType =
       IF C9_Tag(u) = <<"p", "l", "3", "0">> THEN "monthly" ELSE "yearly"

\* the completion the claim describes for any other tag
C9_Title(u) ==
  /\ units[u].mutation # NoMutation
  /\ units[u].mutation.name = "recordCompletedTitlePurchase"
  /\ units[u].mutation.userId = C9_User(u)
  /\ units[u].mutation.purchaseType =
       IF StartsWith(C9_Tag(u), <<"e", "b", ":">>) THEN "ebook" ELSE "audiobook"
  /\ C9_HasColon(C9_Tag(u))
  /\ units[u].mutation.bookId = C9_AfterColon(C9_Tag(u))

\* C9 as claimed: every memo of two tokens or more whose first token starts
\* with ud: yields the completion that matches its second token
C9_Original ==
  \A u \in 1..Len(units) :
     C9_Decoding(u) =>
        IF StartsWith(C9_Tag(u), <<"p", "l">>) THEN C9_Subscription(u)
        ELSE C9_Title(u)

\* C9 as amended: a pl-prefixed tag yields a subscription, monthly for pl30
\* and yearly otherwise; any other tag that holds a ':' yields a title
\* purchase, ebook for an eb: prefix and audiobook otherwise, with the text
\* after the first ':' as bookId; any other tag without ':' yields no
\* completion: the unit ends on an IndexError that handle_signature logs
C9_Classification ==
  \A u \in 1..Len(units) :
     C9_Decoding(u) =>
        IF StartsWith(C9_Tag(u), <<"p", "l">>) THEN C9_Subscription(u)
        ELSE IF C9_HasColon(C9_Tag(u)) THEN C9_Title(u)
        ELSE /\ units[u].mutation = NoMutation
             /\ units[u].pc = "done"
             /\ units[u].exc = "IndexError"
             /\ posts = <<>>

\* the memo "ud:3 au:7 pl30" has been decoded into an audiobook purchase of
\* book 7 by user 3
C9_Witness ==
  \E u \in 1..Len(units) :
     /\ units[u].memo_text = Str("ud:3") \o <<SP>> \o Str("au:7") \o <<SP>> \o Str("pl30")
     /\ units[u].pc = "do_post"
     /\ units[u].mutation.purchaseType = "audiobook"
     /\ units[u].mutation.bookId = Str("7")
     /\ units[u].mutation.userId = Str("3")

\* the merchant's index in the account list of tx
C10_Index(tx) ==
  CHOOSE k \in 1..Len(tx.accountKeys) :
     /\ tx.accountKeys[k].pubkey = Merchant
     /\ \A j \in 1..(k - 1) : tx.accountKeys[j].pubkey # Merchant

\* C10: the price of a submitted completion is the merchant's balance delta
\* in lamports, postBalances[i] - preBalances[i] at the merchant's index i,
\* divided by 10^9; from 1_000_000_000 to 1_050_000_000 the delta is
\* 50_000_000 and the price 0.05
C10_PriceIsDelta ==
  \A n \in 1..Len(posts) :
     \E u \in 1..Len(units) :
        LET tx == ledger[units[u].sig]
            i == C10_Index(tx)
        IN  /\ units[u].mutation = posts[n]
            /\ posts[n].price = units[u].sol_paid
            /\ posts[n].price.nano \in 0..999999999
            /\ posts[n].price.whole >= 0
            /\ posts[n].price.whole * 1000000000 + posts[n].price.nano
                 = tx.postBalances[i] - tx.preBalances[i]
            /\ (tx.preBalances[i] = 1000000000 /\ tx.postBalances[i] = 1050000000)
                 => posts[n].price = [whole |-> 0, nano |-> 50000000]

\* a completion priced 0.05 has been submitted for a merchant, second in
\* the account list, whose balance went from 1_000_000_000 to 1_050_000_000
C10_Witness ==
  /\ Len(posts) = 1
  /\ posts[1].price = [whole |-> 0, nano |-> 50000000]
  /\ ledger[posts[1].txSignature].preBalances[2] = 1000000000
  /\ ledger[posts[1].txSignature].postBalances[2] = 1050000000
  /\ ledger[posts[1].txSignature].accountKeys[1].pubkey = "other"

\* %XX of a percent-encoded text, decoded
C11_Unescape(a, b) ==
  CASE <<a, b>> = <<"2", "0">> -> " "
    [] <<a, b>> = <<"3", "A">> -> ":"
    [] <<a, b>> = <<"2", "2">> -> "\""
    [] <<a, b>> = <<"2", "5">> -> "%"
    [] OTHER -> "?"

RECURSIVE C11_Unquote(_)
\* what a wallet reads from a percent-encoded query value
C11_Unquote(str) ==
  IF str = <<>> THEN <<>>
  ELSE IF Head(str) = "%" /\ Len(str) >= 3
    THEN <<C11_Unescape(str[2], str[3])>> \o C11_Unquote(SubSeq(str, 4, Len(str)))
  ELSE <<Head(str)>> \o C11_Unquote(Tail(str))

C11_DigitValue(c) == CHOOSE d \in 0..9 : Digit(d) = c

RECURSIVE C11_Digits(_)
\* the number a string of decimal digits denotes
C11_Digits(ds) ==
  IF ds = <<>> THEN 0
  ELSE 10 * C11_Digits(SubSeq(ds, 1, Len(ds) - 1)) + C11_DigitValue(ds[Len(ds)])

RECURSIVE C11_Pow10(_)
C11_Pow10(n) == IF n = 0 THEN 1 ELSE 10 * C11_Pow10(n - 1)

\* the amount in micro-SOL that a decimal numeral denotes: digits, an
\* optional fraction, an optional exponent e-0N
C11_Value(str) ==
  LET es == {i \in 1..Len(str) : str[i] = "e"}
      e == IF es = {} THEN Len(str) + 1 ELSE CHOOSE i \in es : TRUE
      exp == IF es = {} THEN 0 ELSE C11_Digits(SubSeq(str, e + 2, Len(str)))
      mant == SubSeq(str, 1, e - 1)
      ps == {i \in 1..Len(mant) : mant[i] = "."}
      p == IF ps = {} THEN Len(mant) + 1 ELSE CHOOSE i \in ps : TRUE
      int == SubSeq(mant, 1, p - 1)
      frac == SubSeq(mant, p + 1, Len(mant))
  IN  C11_Digits(int \o frac) * C11_Pow10(6 - Len(frac) - exp)

\* the value of the query parameter key of a payable URI
C11_Param(url, key) ==
  LET i == CHOOSE k \in 1..Len(url.query) : url.query[k][1] = key
  IN  url.query[i][2]

\* a request for the monthly plan, in any letter case
C11_Monthly(purchase_type) == purchase_type \in {"monthly", "Monthly", "MONTHLY"}

\* amount, a count of micro-SOL, is usd cents over sol_price dollars
\* rounded to 6 decimals: within half a micro-SOL of the quotient
C11_Rounded(amount, usd, sol_price) ==
  LET d == amount * sol_price - usd * 10000
  IN  2 * (IF d < 0 THEN 0 - d ELSE d) <= sol_price

\* C11: a subscription session of a monthly request has the memo
\* "ud:<userId> pl30" and the monthly USD price over the oracle price,
\* rounded to 6 decimals, as amount (9.99 at 100.0 gives 0.0999); any other
\* purchase type has the tag pl365 and the yearly price; the amount,
\* reference and memo fields are the values embedded in the payable URI
C11_SubSession ==
  (session.request.fn = "create_sub_session" /\ session.result.error = "none") =>
     LET r == session.result
         monthly == C11_Monthly(session.request.purchase_type)
         usd == IF monthly THEN session.replies.monthlyPrice
                ELSE session.replies.yearlyPrice
         tag == IF monthly THEN <<"p", "l", "3", "0">>
                ELSE <<"p", "l", "3", "6", "5">>
     IN  /\ r.memo = <<"u", "d", ":">> \o session.request.user_id \o <<" ">> \o tag
         /\ C11_Rounded(r.amount, usd, session.replies.sol_price)
         /\ (usd = 999 /\ session.replies.sol_price = 100) => r.amount = 99900
         /\ r.reference = session.replies.ref
         /\ C11_Value(C11_Unquote(C11_Param(r.solanaPayUrl, "amount"))) = r.amount
         /\ C11_Unquote(C11_Param(r.solanaPayUrl, "reference")) = r.reference
         /\ C11_Unquote(C11_Param(r.solanaPayUrl, "memo")) = r.memo
         /\ r.solanaPayUrl.recipient = r.recipient

\* a session for "Monthly" at 9.99 USD and 100 USD per SOL: amount 0.0999,
\* written 0.0999 in the URI, and the memo "ud:a%b pl30" percent-encoded
C11_Witness ==
  /\ session.request.fn = "create_sub_session"
  /\ session.result.error = "none"
  /\ session.request.purchase_type = "Monthly"
  /\ session.replies.monthlyPrice = 999 /\ session.replies.yearlyPrice = 9900
  /\ session.replies.sol_price = 100
  /\ session.result.amount = 99900
  /\ C11_Param(session.result.solanaPayUrl, "amount") = <<"0", ".", "0", "9", "9", "9">>
  /\ session.result.memo = <<"u", "d", ":", "a", "%", "b", " ", "p", "l", "3", "0">>
  /\ C11_Param(session.result.solanaPayUrl, "memo") =
       <<"u", "d", "%", "3", "A", "a", "%", "2", "5", "b", "%", "2", "0", "p", "l", "3", "0">>

\* C12: when the merchant account is not configured, create_sub_session
\* and create_title_session fail with a configuration error before any
\* pricing query, oracle call or reference generation, and return no session
C12_ConfigErrorFirst ==
  (MERCHANT = "" /\ session.request.fn # "none") =>
     /\ session.calls = <<>>
     /\ session.replies = <<>>
     /\ session.result = [error |-> "RuntimeError"]

\* both functions have been called without a merchant account: here the
\* title session of book 42 was asked for and the call raised
C12_Witness ==
  /\ MERCHANT = ""
  /\ session.request.fn = "create_title_session"
  /\ session.request.book_id = <<"4", "2">>
  /\ session.result.error = "RuntimeError"
  /\ session.calls = <<>>

\* C13: no hot-looping: start() comes to a connection attempt only from
\* its reconnect delay, and each attempt, failed or not, leaves the
\* attempting state, so no two attempts follow one another without a delay
\* step in between; _connect_and_listen never returns into an immediate retry
C13_DelayBeforeRetry ==
  [][/\ (pc' = "connect" /\ pc # "connect") => (pc = "sleep5" /\ ReconnectDelay)
     /\ (Connect \/ ConnectFail) => pc' # "connect"
     /\ (pc \in {"finally", "await_hb"} /\ pc' # pc) =>
           pc' \in {"await_hb", "sleep5"}]_vars

\* start() is about to connect again after a connection that ended with
\* its heartbeat cancelled and a handshake that failed after it
C13_Witness ==
  /\ pc = "sleep5"
  /\ exc = "OSError"
  /\ hb = "cancelled"
  /\ last_pong = "ping"

\* the heartbeat task is running: sleeping, or waiting for a pong
C14_Running == hb \in {"sleep", "ping_wait"}

\* C14 as claimed: the heartbeat loop is active only while Listening: no
\* heartbeat task is running while the connection is Connecting or
\* Subscribed (subscribe request sent, acknowledgment not yet received)
C14_Original == pc \in {"connect", "wait_ack"} => ~C14_Running

\* C14 as amended: the heartbeat task is created right after the
\* handshake, before the subscribe request is sent: one exists, running or
\* ended by itself, all through subscribing, Subscribed and Listening; none
\* is running while Connecting or during the reconnect delay
C14_HeartbeatFromHandshake ==
  /\ pc \in {"connect", "sleep5"} => ~C14_Running /\ hb # "cancel_req"
  /\ pc \in {"send_sub", "wait_ack", "listen"} =>
        hb \in {"sleep", "ping_wait", "timeout", "closed"}

\* the acknowledgment has not come yet and the heartbeat waits for the
\* pong of a ping it has sent
C14_Witness == pc = "wait_ack" /\ ws = "open" /\ hb = "ping_wait"

\* the units that have submitted a completion
C15_Posted == {u \in 1..Len(units) : units[u].mutation # NoMutation}

\* the memo the unit found decodes: two tokens or more, the first starting
\* with ud:, the second a pl tag or a tag with a ':'
C15_Decoded(u) ==
  /\ units[u].memo_text # <<>>
  /\ ~C6_Malformed(units[u].memo_text)
  /\ \/ StartsWith(C9_Tag(u), <<"p", "l">>)
     \/ C9_HasColon(C9_Tag(u))

\* the unit has seen a positive balance delta of the merchant
C15_Verified(u) ==
  /\ units[u].sol_paid # NoSol
  /\ C7_Credited(ledger[units[u].sig])

\* C15: a handling unit submits at most one completion POST: exactly one
\* when a memo was found and decoded and the merchant's delta is positive,
\* none otherwise; after a non-success response or a network error on the
\* POST the unit ends: no retry, no re-dispatch, nothing kept of the event
C15_AtMostOnePost ==
  /\ [](/\ Len(posts) = Cardinality(C15_Posted)
        /\ \A u \in 1..Len(units) :
              /\ units[u].pc \in {"do_post", "done"} =>
                    ((u \in C15_Posted) <=> (C15_Decoded(u) /\ C15_Verified(u)))
              /\ units[u].pc \in {"created", "fetch_tx", "fetch_balances"} =>
                    u \notin C15_Posted
              /\ units[u].pc # "crashed")
  /\ [][/\ (PostReply \/ PostFail) =>
             /\ posts' = posts
             /\ Len(units') = Len(units)
             /\ \A u \in 1..Len(units) :
                   units'[u] # units[u] =>
                      units[u].pc = "do_post" /\ units'[u].pc = "done"
             /\ UNCHANGED <<ConnVars, ledger>>
        /\ \A u \in 1..Len(units) :
              units[u].pc = "done" => units'[u] = units[u]]_vars

\* the fulfillment service has answered the unit's one POST with a
\* non-success status and the unit has ended
C15_Witness ==
  \E u \in 1..Len(units) :
     /\ units[u].pc = "done"
     /\ units[u].why = "mutation_failed"
     /\ posts = <<units[u].mutation>>

\* tolerance fractions from 0 up: 0, 5%, 100%, 200%
C16_Tolerances ==
  {[num |-> 0, den |-> 1], [num |-> 1, den |-> 20], [num |-> 1, den |-> 1],
   [num |-> 2, den |-> 1]}

\* C16: the tolerance check never blocks forwarding and is inert: in every
\* unit that reaches verification the expected amount equals the paid
\* amount and is strictly positive, so the deviation is 0, the warning
\* branch is never taken whatever the non-negative tolerance, and a decoded
\* and verified event is forwarded
C16_ToleranceInert ==
  \A u \in 1..Len(units) :
     /\ units[u].exc # "ZeroDivisionError"
     /\ units[u].mutation # NoMutation =>
           /\ units[u].sol_expected = units[u].sol_paid
           /\ units[u].sol_expected.whole * 1000000000 + units[u].sol_expected.nano > 0
           /\ ~units[u].warned
           /\ \A tol \in C16_Tolerances :
                 ~Deviates(units[u].sol_paid, units[u].sol_expected, tol)
     /\ (units[u].pc \in {"do_post", "done"} /\ C15_Decoded(u) /\ C15_Verified(u)) =>
           /\ units[u].mutation # NoMutation
           /\ units[u].mutation \in {posts[i] : i \in 1..Len(posts)}

\* a unit has passed the tolerance check with 0.000005 SOL paid and
\* expected, without the warning, and is forwarding
C16_Witness ==
  \E u \in 1..Len(units) :
     /\ units[u].pc = "do_post"
     /\ units[u].sol_paid = [whole |-> 0, nano |-> 5000]
     /\ units[u].sol_expected = [whole |-> 0, nano |-> 5000]
     /\ ~units[u].warned

\* the quoted payloads of the log lines that begin with the memo marker
C17_Payloads(logs_list) ==
  {QuotedPayload(logs_list[i].text) : i \in {k \in 1..Len(logs_list) : logs_list[k].marker}}
  \ {<<>>}

\* the quoted payload of the first log line that begins with the memo
\* marker; <<>> when no line does or when that line has none
C17_FirstMarked(logs_list) ==
  LET at == {k \in 1..Len(logs_list) : logs_list[k].marker}
  IN  IF at = {} THEN <<>>
      ELSE QuotedPayload(logs_list[CHOOSE k \in at : \A j \in at : k <= j].text)

C17_IsMemoIx(ix) ==
  (ix.parsed /\ ix.program = "spl-memo")
  \/ ix.programId = "MemoSq4gqABAXKb96qnH8TysNcWxMyWCqXgDLGmfcHr"

\* the memo of the first memo instruction: the parsed text of a parsed
\* spl-memo instruction, else the data of a memo-program instruction
C17_InstructionMemo(ixs) ==
  LET at == {k \in 1..Len(ixs) : C17_IsMemoIx(ixs[k])}
  IN  IF at = {} THEN <<>>
      ELSE LET ix == ixs[CHOOSE k \in at : \A j \in at : k <= j]
           IN  IF ix.parsed /\ ix.program = "spl-memo" THEN ix.memo ELSE ix.data

\* the unit went on to the transaction: the memo it holds comes from the
\* instructions of an answer, and without a memo it ends before the
\* balance fetch and forwards nothing
C17_Fallback(u) ==
  /\ units[u].fetched
  /\ units[u].pc # "fetch_tx" =>
        \/ /\ units[u].memo_text # <<>>
           /\ \E raw_tx \in RpcReplies(units[u].sig) :
                 units[u].memo_text = C17_InstructionMemo(raw_tx.instructions)
        \/ /\ units[u].memo_text = <<>>
           /\ units[u].pc = "done"
           /\ units[u].sol_paid = NoSol
           /\ units[u].mutation = NoMutation
           /\ posts = <<>>

\* C17 as claimed: when the log lines hold a line beginning with the memo
\* marker that carries a quoted payload, that payload is the memo and the
\* transaction is not fetched for the memo; only otherwise is it fetched
\* and its instructions scanned; with no memo from either the event is
\* dropped before the balance fetch and nothing is forwarded
C17_Original ==
  \A u \in 1..Len(units) :
     units[u].pc # "created" =>
        IF C17_Payloads(units[u].logs) # {}
          THEN /\ ~units[u].fetched
               /\ units[u].memo_text \in C17_Payloads(units[u].logs)
          ELSE C17_Fallback(u)

\* C17 as amended: the first log line beginning with the memo marker
\* decides: when it carries a quoted payload, that payload is the memo and
\* the transaction is not fetched for the memo; otherwise (no such line, or
\* no quoted payload in the first one) the transaction is fetched and the
\* first memo instruction gives the memo; with no memo from either the
\* event is dropped before the balance fetch and nothing is forwarded
C17_ResolutionOrder ==
  \A u \in 1..Len(units) :
     units[u].pc # "created" =>
        IF C17_FirstMarked(units[u].logs) # <<>>
          THEN /\ ~units[u].fetched
               /\ units[u].memo_text = C17_FirstMarked(units[u].logs)
          ELSE C17_Fallback(u)

\* the first marked log line had no quoted payload, the second had one:
\* the unit fetched the transaction and took the data of its raw memo
\* instruction, which comes before a parsed one
C17_Witness ==
  \E u \in 1..Len(units) :
     /\ Len(units[u].logs) = 2
     /\ units[u].logs[1].marker /\ units[u].logs[2].marker
     /\ units[u].fetched
     /\ units[u].pc = "fetch_balances"
     /\ units[u].memo_text = <<"u", "d", ":", "3", " ", "p", "l", "3", "0">>
     /\ Len(ledger[units[u].sig].instructions) = 2
     /\ ~ledger[units[u].sig].instructions[1].parsed

\* C18: when the connection drops, its heartbeat task is cancelled and has
\* ended before the next connection attempt, and the handling units
\* dispatched on it are not cancelled: whatever the listener is doing,
\* tearing down, sleeping or connected again, no unit has been ended from
\* outside and a unit in flight can take its next step, to its own end or
\* failure
C18_CancelOnDrop ==
  /\ pc \in {"sleep5", "connect"} => hb \in {"none", "timeout", "closed", "cancelled"}
  /\ pc = "await_hb" => hb \in {"cancel_req", "cancelled"}
  /\ \A u \in 1..Len(units) :
        /\ units[u].pc \notin {"done", "crashed"} => MayRun(u)
        /\ units[u].pc \in {"fetch_tx", "fetch_balances"} => ENABLED RpcFail
        /\ units[u].pc = "do_post" => ENABLED PostReply
        /\ units[u].pc # "crashed"
        /\ units[u].pc = "done" => units[u].why # ""
        /\ units[u].exc \in {"none", "AttributeError", "IndexError", "RequestException"}

\* the listener has reconnected, with a new heartbeat, and waits for the
\* acknowledgment while a unit dispatched on the connection before submits
\* its completion
C18_Witness ==
  /\ pc = "wait_ack" /\ ws = "open" /\ hb = "sleep"
  /\ Len(units) = 1
  /\ units[1].pc = "do_post"
  /\ posts = <<units[1].mutation>>

\* C19: a handling unit changes no shared state: each of its steps,
\* whatever its outcome (drop, forward, timeout, exception), leaves the
\* connection state, last_pong and the heartbeat task as they are, and
\* every other handling unit too
C19_UnitFrame ==
  [][(UnitStep \/ (Len(units') = Len(units) /\ units' # units)) =>
        /\ pc' = pc /\ ws' = ws /\ exc' = exc
        /\ last_pong' = last_pong
        /\ hb' = hb
        /\ rx' = rx
        /\ ledger' = ledger /\ MERCHANT' = MERCHANT
        /\ Len(units') = Len(units)
        /\ \E u \in 1..Len(units) :
              /\ units'[u].sig = units[u].sig /\ units'[u].logs = units[u].logs
              /\ \A v \in 1..Len(units) : v # u => units'[v] = units[v]
        /\ posts' = posts \/ (Len(posts') = Len(posts) + 1
                               /\ SubSeq(posts', 1, Len(posts)) = posts)]_vars

\* one unit has ended on the failure of its RPC while the other waits for
\* the transaction, the listener listens and the heartbeat waits for a pong
C19_Witness ==
  /\ Len(units) = 2
  /\ units[1].pc = "done" /\ units[1].exc = "RequestException"
  /\ units[2].pc = "fetch_tx"
  /\ pc = "listen" /\ ws = "open"
  /\ hb = "ping_wait" /\ last_pong = "ping"

\* what C20 says of the steps of a connection up to Listening and of the
\* messages that parse: one subscribe request goes out after the handshake
\* and before any message is read; the first message read is the
\* acknowledgment and dispatches nothing; from then on a unit is dispatched
\* exactly for a message with a signature, one unit for one message; a
\* message that parses and has no signature changes nothing
C20_Protocol ==
  /\ pc' = "send_sub" => pc \in {"connect", "send_sub"}
  /\ (pc = "send_sub" /\ pc' # pc) => pc' \in {"wait_ack", "finally"}
  /\ pc' = "wait_ack" => (pc \in {"send_sub", "wait_ack"} /\ rx' = "none")
  /\ pc \in {"connect", "send_sub"} => rx' = "none"
  /\ (rx = "none" /\ rx' # "none") =>
        /\ rx' = "ack"
        /\ pc = "wait_ack" /\ pc' = "listen"
        /\ units' = units
  /\ Len(units') # Len(units) =>
        /\ pc = "listen" /\ pc' = "listen"
        /\ rx # "none" /\ rx' = "sig"
        /\ Len(units') = Len(units) + 1
        /\ SubSeq(units', 1, Len(units)) = units
        /\ units'[Len(units')].sig # ""
        /\ units'[Len(units')].pc = "created"
  /\ (rx' = "sig" /\ rx # "sig") => Len(units') = Len(units) + 1
  /\ (rx' = "nosig" /\ rx # "nosig") =>
        /\ pc = "listen" /\ pc' = "listen"
        /\ units' = units

\* C20 as claimed: the protocol order, and every message without a
\* signature leaves the connection in Listening
C20_Original ==
  [][/\ C20_Protocol
     /\ (rx' \in {"nosig", "bad"} /\ rx' # rx) => pc' = "listen"]_vars

\* C20 as amended: the protocol order, where a message that parses (a
\* JSON object) and has no signature leaves the connection in Listening; a
\* message that does not parse dispatches nothing and ends the connection
\* with the exception of its parsing
C20_ProtocolOrder ==
  [][/\ C20_Protocol
     /\ (rx' = "bad" /\ rx' # rx) =>
           /\ pc = "listen" /\ pc' = "finally"
           /\ exc' \in {"JSONDecodeError", "AttributeError"}
           /\ units' = units]_vars

\* after the acknowledgment and two messages with a signature, which
\* dispatched one unit each, a message without a signature was read: the
\* listener listens on
C20_Witness ==
  /\ pc = "listen" /\ ws = "open"
  /\ rx = "nosig"
  /\ last_pong = "ping"
  /\ Len(units) = 2
  /\ units[1].pc = "done"
  /\ units[2].pc = "created"

\* the heartbeat task that self.heartbeat_task names is alive
C21_Alive(h) == h \in {"sleep", "ping_wait", "cancel_req"}

\* C21: at most one heartbeat task is alive at any time: a heartbeat task
\* is created only by a successful handshake, and only once the task of
\* the connection before has finished or has been cancelled and awaited,
\* so the one that self.heartbeat_task names is the only one; a failed
\* handshake creates none
C21_OneHeartbeat ==
  [][/\ (pc = "connect" /\ pc' = "send_sub") =>
           /\ ~C21_Alive(hb)
           /\ hb' = "sleep"
     /\ (C21_Alive(hb') /\ ~C21_Alive(hb)) => (pc = "connect" /\ pc' = "send_sub")
     /\ (pc = "connect" /\ pc' \notin {"connect", "send_sub"}) =>
           /\ pc' = "sleep5"
           /\ hb' = hb
           /\ ~C21_Alive(hb)
     /\ (pc = "await_hb" /\ pc' # pc) => (hb = "cancelled" /\ hb' = hb)
     /\ hb = "cancel_req" => hb' \in {"cancel_req", "cancelled"}
     /\ pc \in {"sleep5", "connect"} => ~C21_Alive(hb)]_vars

\* a second connection has its new heartbeat task, the only one alive:
\* the unit was dispatched on the connection before, whose heartbeat was
\* cancelled and awaited before the handshake
C21_Witness ==
  /\ pc = "send_sub" /\ ws = "open"
  /\ hb = "sleep"
  /\ rx = "none"
  /\ Len(units) = 1

====
